---- MODULE Spec2Model ----
(***************************************************************************)
(* TinyRemoteRF: the ASK/OOK transmitter (sendCode, sendByte and the pulse *)
(* macros of the ATtiny13 firmware) and the example receiver (loop()).     *)
(*                                                                         *)
(* The radio link is modelled as the sequence of burst durations the       *)
(* receiver's pulseIn() calls return, one element per call: a positive     *)
(* number is the measured length of a burst in microseconds, 0 is a        *)
(* pulseIn() timeout.  Bursts keyed by the transmitter are appended to     *)
(* that sequence as they end; the receiver reads them in order.            *)
(***************************************************************************)
EXTENDS Integers, Sequences, FiniteSets

(* ------------------------- program constants --------------------------- *)
RF_ERR == 150
RF_PRE == 32
RF_START == 4
RF_REP == 3
ADDR == 85
CounterReloadStart == RF_START
CounterReload == 5
NumBits == 24
SentinelMask == 16777216
SpaceComp == 5

startBurst == 6 * RF_ERR
startSpace == 6 * RF_ERR - SpaceComp
bit0Burst == 2 * RF_ERR
bit0Space == 2 * RF_ERR - SpaceComp
bit1Burst == 4 * RF_ERR
bit1Space == 4 * RF_ERR - SpaceComp
stopPauseDelay == 6 * RF_ERR

(* ------------------------------ bounds --------------------------------- *)
MaxPre == 3
MaxNoStart == 4
MaxHeld == 2
MaxStart == 8
MaxStartLen == 6

VARIABLES
  tx_pc,     \* transmitter position: "idle", "pre", "start", "byte", "stop", "done"
  tx_cmd,    \* sendCode's argument cmd
  tx_i,      \* sendCode's counter i (preamble bits left, then repetitions left)
  tx_j,      \* sendCode's counter j (start pulses left)
  tx_byte,   \* which sendByte call is running: 1 = ADDR, 2 = cmd, 3 = ~cmd
  tx_value,  \* sendByte's parameter value
  tx_n,      \* sendByte's counter i (bits left)
  pin,       \* DATA output, bit PB0 of PORTB: 1 = keyed on
  off_us,    \* microseconds of delay spent with the output off since RF_off()
  sent,      \* symbols emitted so far: "0", "1", "S" (start), "P" (stop pause)
  stream,    \* the results of the receiver's pulseIn() calls, in order
  pos,       \* index in stream of the next pulseIn() result
  fault,     \* the corruption the channel applied to the telegram, if any
  src,       \* what produced the pulse stream (the input of the run)
  rx_pc,     \* receiver position: "wait" (start bits), "read" (bits), "report"
  counter,   \* loop()'s uint8_t counter
  duration,  \* the global uint16_t duration
  data,      \* loop()'s uint32_t data
  rx_i,      \* loop()'s uint8_t i (bits left to read)
  reports,   \* what loop() has printed, one entry per pass
  rf_start,  \* the RF_START the receiver was built with
  main_pc,   \* main(): "sleep", "debounce", "send", "loop"; "off" when main() is not run
  keys,      \* the keys held down, KEYn as n
  buttons,   \* main()'s uint8_t buttons
  woke,      \* "press" if a key went down in the last wake-up (from the end of the
             \* sleep to the read of PINB), "release" if only releases happened
  late       \* keys pressed while the device was sending, held since and not yet sent

txvars == <<tx_pc, tx_cmd, tx_i, tx_j, tx_byte, tx_value, tx_n, pin, off_us, sent>>
chvars == <<stream, pos, fault, src>>
rxvars == <<rx_pc, counter, duration, data, rx_i, reports>>
xvars == <<rf_start, main_pc, keys, buttons, woke, late>>
vars == <<txvars, chvars, rxvars, xvars>>

(* --------------------------- integer helpers --------------------------- *)
U8(x) == x % 256
U16(x) == x % 65536

Byte == 0..255

RECURSIVE Pow2(_)
Pow2(n) == IF n = 0 THEN 1 ELSE 2 * Pow2(n - 1)

\* x & mask for a mask with a single bit set
TestBit(x, mask) == (x \div mask) % 2 = 1

\* bit k of byte b, k = 1 for the most significant bit
BitAt(b, k) == (b \div Pow2(8 - k)) % 2

(* ----------------------------- transmitter ----------------------------- *)
Not8Neg(x) == U8(256 - x)

\* ~cmd converted to the uint8_t parameter of sendByte
Not8(x) == U8(255 - x)

\* value & 0x80
MsbSet(value) == TestBit(value, 128)

Shl8Keep(value) == value

\* value <<= 1 on a uint8_t
Shl8(value) == U8(value * 2)

\* the argument of the k-th sendByte call of one repetition
ByteArg(k, cmd) == IF k = 1 THEN ADDR ELSE IF k = 2 THEN cmd ELSE Not8(cmd)

\* the symbol the transmitter is emitting at its current position
CurSymbol ==
  IF tx_pc = "pre" THEN "0"
  ELSE IF tx_pc = "start" THEN "S"
  ELSE IF MsbSet(tx_value) THEN "1" ELSE "0"

BurstOf(sym) == IF sym = "S" THEN startBurst ELSE IF sym = "1" THEN bit1Burst ELSE bit0Burst
SpaceOf(sym) == IF sym = "S" THEN startSpace ELSE IF sym = "1" THEN bit1Space ELSE bit0Space

\* the channel has corrupted nothing
NoFault == [kind |-> "none", rep |-> 0]

\* the receiver has read every burst keyed so far (or no receiver is listening)
RxCaughtUp == IF src.kind = "main" THEN TRUE ELSE pos > Len(stream)

RF_offKeep(p) == p

\* PORTB &= ~(1<<DATA): the new level of the DATA output
RF_off(p) == 0

\* PORTB |= (1<<DATA): the new level of the DATA output
RF_on(p) == 1

\* sendCode(cmd) is entered: i = RF_PRE
SendCodeEnter ==
  /\ tx_pc = "idle"
  /\ tx_pc' = "pre"
  /\ tx_i' = RF_PRE
  /\ UNCHANGED <<tx_cmd, tx_j, tx_byte, tx_value, tx_n, pin, off_us, sent>>
  /\ UNCHANGED <<chvars, rxvars>>
  /\ UNCHANGED xvars

\* RF_on(); _delay_us(burst) of startPulse, bit0Pulse or bit1Pulse
\* (the receiver's pulseIn() returns when a burst ends, before the next one begins)
RFOn ==
  /\ tx_pc \in {"pre", "start", "byte"}
  /\ pin = 0
  /\ RxCaughtUp
  /\ pin' = RF_on(pin)
  /\ off_us' = 0
  /\ UNCHANGED <<tx_pc, tx_cmd, tx_i, tx_j, tx_byte, tx_value, tx_n, sent>>
  /\ UNCHANGED <<chvars, rxvars>>
  /\ UNCHANGED xvars

\* RF_off(); _delay_us(space) of the pulse macro: the burst has ended and is on the air
KeyOff(sym) ==
  /\ pin' = RF_off(pin)
  /\ off_us' = SpaceOf(sym)
  /\ sent' = Append(sent, sym)
  /\ stream' = Append(stream, BurstOf(sym))
  /\ UNCHANGED <<pos, fault, src>>

\* for(i=RF_PRE;i;i--) bit0Pulse();  then i = RF_REP, j = RF_START
PreambleOff ==
  /\ tx_pc = "pre"
  /\ pin = 1
  /\ KeyOff("0")
  /\ IF U8(tx_i - 1) # 0
       THEN /\ tx_i' = U8(tx_i - 1)
            /\ UNCHANGED <<tx_pc, tx_j>>
       ELSE /\ tx_i' = RF_REP
            /\ tx_j' = RF_START
            /\ tx_pc' = "start"
  /\ UNCHANGED <<tx_cmd, tx_byte, tx_value, tx_n>>
  /\ UNCHANGED rxvars
  /\ UNCHANGED xvars

\* for(j=RF_START;j;j--) startPulse();  then sendByte(ADDR) is entered
StartOff ==
  /\ tx_pc = "start"
  /\ pin = 1
  /\ KeyOff("S")
  /\ IF U8(tx_j - 1) # 0
       THEN /\ tx_j' = U8(tx_j - 1)
            /\ UNCHANGED <<tx_pc, tx_byte, tx_value, tx_n>>
       ELSE /\ tx_j' = 0
            /\ tx_pc' = "byte"
            /\ tx_byte' = 1
            /\ tx_value' = ByteArg(1, tx_cmd)
            /\ tx_n' = 8
  /\ UNCHANGED <<tx_cmd, tx_i>>
  /\ UNCHANGED rxvars
  /\ UNCHANGED xvars

\* one pass of sendByte's loop: the bit's pulse, then i--, value <<= 1;
\* after the eighth bit the next sendByte call, or stopPause after the third
BitOff ==
  /\ tx_pc = "byte"
  /\ pin = 1
  /\ KeyOff(CurSymbol)
  /\ IF U8(tx_n - 1) # 0
       THEN /\ tx_n' = U8(tx_n - 1)
            /\ tx_value' = Shl8(tx_value)
            /\ UNCHANGED <<tx_pc, tx_byte>>
       ELSE IF tx_byte < 3
         THEN /\ tx_byte' = tx_byte + 1
              /\ tx_value' = ByteArg(tx_byte + 1, tx_cmd)
              /\ tx_n' = 8
              /\ UNCHANGED tx_pc
         ELSE /\ tx_pc' = "stop"
              /\ tx_n' = 0
              /\ tx_value' = Shl8(tx_value)
              /\ UNCHANGED tx_byte
  /\ UNCHANGED <<tx_cmd, tx_i, tx_j>>
  /\ UNCHANGED rxvars
  /\ UNCHANGED xvars

\* stopPause(); then i-- of the repetition loop: the next repetition, or return
StopPause ==
  /\ tx_pc = "stop"
  /\ pin = 0
  /\ off_us' = off_us + stopPauseDelay
  /\ sent' = Append(sent, "P")
  /\ IF U8(tx_i - 1) # 0
       THEN /\ tx_i' = U8(tx_i - 1)
            /\ tx_j' = RF_START
            /\ tx_pc' = "start"
       ELSE /\ tx_i' = 0
            /\ tx_pc' = "done"
            /\ UNCHANGED tx_j
  /\ UNCHANGED <<tx_cmd, tx_byte, tx_value, tx_n, pin>>
  /\ UNCHANGED <<chvars, rxvars>>
  /\ UNCHANGED xvars

(* ------------------------------ receiver ------------------------------- *)
\* the transmitter is not keying and has nothing more to key
TxSilent == tx_pc = "done" \/ src.kind # "air"

\* pulseIn(DATA_PIN, HIGH, timeout) can return: a burst is there, or nothing comes
PulseReady == IF pos <= Len(stream) THEN TRUE ELSE TxSilent

\* the value pulseIn returns, stored in the uint16_t duration
PulseIn == IF pos <= Len(stream) THEN U16(stream[pos]) ELSE 0

\* the read pointer after the call
Consume == IF pos <= Len(stream) THEN pos + 1 ELSE pos

OutOfStartBandLow(d) == d < RF_ERR \/ d > 7 * RF_ERR

\* (duration < (5 * RF_ERR)) || (duration > (7 * RF_ERR))
OutOfStartBand(d) == d < 5 * RF_ERR \/ d > 7 * RF_ERR

OutOfBitBandWide(d) == d < RF_ERR \/ d > 7 * RF_ERR

\* (duration < RF_ERR) || (duration > (5 * RF_ERR))
OutOfBitBand(d) == d < RF_ERR \/ d > 5 * RF_ERR

IsOneBitGe(d) == d >= 3 * RF_ERR

\* duration > (3 * RF_ERR)
IsOneBit(d) == d > 3 * RF_ERR

\* data <<= 1; if (duration > (3 * RF_ERR)) data |= 1;
\* (data starts at 1 and is shifted at most 24 times: it stays below 2^25, far from
\* the 32 bits of uint32_t)
ShiftIn(x, d) == x * 2 + (IF IsOneBit(d) THEN 1 ELSE 0)

CompleteBit23(x) == TestBit(x, SentinelMask \div 2)

\* data & 0x01000000
Complete(x) == TestBit(x, SentinelMask)

InverseOkSame(x) == (x \div 256) % 256 = x % 256

\* ((data >> 8) & 0xFF) == (~data & 0xFF)
\* (the low byte of ~data is 255 minus the low byte of data)
InverseOk(x) == (x \div 256) % 256 = 255 - (x % 256)

\* the lines printed by the "check reading" part of loop()
ReportOf(x) ==
  IF Complete(x)
    THEN <<"Telegram received:", (x \div 65536) % 256, (x \div 256) % 256, x % 256,
           IF InverseOk(x) THEN "Valid Code Reading" ELSE "Invalid Code Reading">>
    ELSE <<"Incomplete Reading !">>

\* one pass of the do-while loop that waits for the start bits
WaitStart ==
  /\ rx_pc = "wait"
  /\ PulseReady
  /\ duration' = PulseIn
  /\ pos' = Consume
  /\ LET c1 == IF OutOfStartBand(PulseIn) THEN CounterReload ELSE counter
         c2 == U8(c1 - 1)
     IN /\ counter' = c2
        /\ IF c2 # 0
             THEN UNCHANGED <<rx_pc, data, rx_i>>
             ELSE /\ rx_pc' = "read"
                  /\ data' = 1
                  /\ rx_i' = NumBits
  /\ UNCHANGED reports
  /\ UNCHANGED <<stream, fault, src>>
  /\ UNCHANGED txvars
  /\ UNCHANGED xvars

\* one pass of the for loop that reads the 24 bits
ReadBit ==
  /\ rx_pc = "read"
  /\ PulseReady
  /\ duration' = PulseIn
  /\ pos' = Consume
  /\ IF OutOfBitBand(PulseIn)
       THEN /\ rx_pc' = "report"
            /\ UNCHANGED <<data, rx_i>>
       ELSE /\ data' = ShiftIn(data, PulseIn)
            /\ rx_i' = U8(rx_i - 1)
            /\ rx_pc' = IF U8(rx_i - 1) # 0 THEN "read" ELSE "report"
  /\ UNCHANGED <<counter, reports>>
  /\ UNCHANGED <<stream, fault, src>>
  /\ UNCHANGED txvars
  /\ UNCHANGED xvars

\* check reading, print, return; loop() is called again: counter = RF_START
Report ==
  /\ rx_pc = "report"
  /\ reports' = Append(reports, ReportOf(data))
  /\ rx_pc' = "wait"
  /\ counter' = rf_start
  /\ data' = 0
  /\ rx_i' = 0
  /\ UNCHANGED duration
  /\ UNCHANGED <<chvars, txvars>>
  /\ UNCHANGED xvars

EntryCounterKeep(left) == left

\* uint8_t counter = RF_START; at the top of loop(), whatever the variable held before
EntryCounter(left) == rf_start

\* loop() is entered with what earlier passes left in memory: the global duration is
\* not touched before the first pulseIn(), data is only initialised after the start bits
LoopEnter ==
  /\ rx_pc = "entry"
  /\ rx_pc' = "wait"
  /\ counter' = EntryCounter(counter)
  /\ UNCHANGED <<duration, data, rx_i, reports>>
  /\ UNCHANGED <<chvars, txvars>>
  /\ UNCHANGED xvars

(* ------------------- sendCode(cmd) heard by the receiver ---------------- *)
TxInit(pc) ==
  /\ tx_pc = pc
  /\ tx_i = 0 /\ tx_j = 0 /\ tx_byte = 0 /\ tx_value = 0 /\ tx_n = 0
  /\ pin = 0 /\ off_us = 0 /\ sent = <<>>

\* main() is not run: no key, nobody asleep
NoMain ==
  /\ main_pc = "off" /\ keys = {} /\ buttons = 0 /\ woke = "none" /\ late = {}

RxInit ==
  /\ rx_pc = "wait"
  /\ counter = rf_start
  /\ duration = 0
  /\ data = 0
  /\ rx_i = 0
  /\ reports = <<>>

Init ==
  /\ tx_cmd \in Byte
  /\ rf_start = RF_START /\ NoMain
  /\ TxInit("idle")
  /\ stream = <<>> /\ pos = 1 /\ fault = NoFault
  /\ src = [kind |-> "air"]
  /\ RxInit

TxNext == SendCodeEnter \/ RFOn \/ PreambleOff \/ StartOff \/ BitOff \/ StopPause
RxNext == WaitStart \/ ReadBit \/ Report

Next == TxNext \/ RxNext

Spec == Init /\ [][Next]_vars

(* ------------- sendCode(cmd) heard over a channel with one fault -------- *)
\* the commands main() sends: CMD1 .. CMD5
KeyCmds == 1..5

\* durations no data bit has
BadDurs == {0, RF_ERR - 1, 5 * RF_ERR + 1, startBurst}

\* the burst now on the air, not yet read, is a data bit of a repetition
DataBurstPending ==
  /\ stream # <<>> /\ pos = Len(stream)
  /\ pin = 0
  /\ tx_pc = "stop" \/ (tx_pc = "byte" /\ ~(tx_byte = 1 /\ tx_n = 8))

\* the repetition being sent, 1 .. RF_REP
CurRep == RF_REP - tx_i + 1

\* the receiver misses the burst
ChanDrop ==
  /\ fault = NoFault
  /\ DataBurstPending
  /\ stream' = SubSeq(stream, 1, Len(stream) - 1)
  /\ fault' = [kind |-> "drop", rep |-> CurRep]
  /\ UNCHANGED <<pos, src>>
  /\ UNCHANGED <<txvars, rxvars>>
  /\ UNCHANGED xvars

\* the receiver measures the burst with a length no data bit has
ChanReplace ==
  /\ fault = NoFault
  /\ DataBurstPending
  /\ \E d \in BadDurs : stream' = [stream EXCEPT ![Len(stream)] = d]
  /\ fault' = [kind |-> "replace", rep |-> CurRep]
  /\ UNCHANGED <<pos, src>>
  /\ UNCHANGED <<txvars, rxvars>>
  /\ UNCHANGED xvars

\* the receiver sees one more burst, of the length of a data bit, after this one
ChanInsert ==
  /\ fault = NoFault
  /\ DataBurstPending
  /\ \E d \in {bit0Burst, bit1Burst} : stream' = Append(stream, d)
  /\ fault' = [kind |-> "insert", rep |-> CurRep]
  /\ UNCHANGED <<pos, src>>
  /\ UNCHANGED <<txvars, rxvars>>
  /\ UNCHANGED xvars

InitFault ==
  /\ tx_cmd \in KeyCmds
  /\ rf_start = RF_START /\ NoMain
  /\ TxInit("idle")
  /\ stream = <<>> /\ pos = 1 /\ fault = NoFault
  /\ src = [kind |-> "air"]
  /\ RxInit

NextFault == TxNext \/ RxNext \/ ChanDrop \/ ChanReplace \/ ChanInsert

SpecFault == InitFault /\ [][NextFault]_vars

(* ------------------------- main(): keys and sleep ----------------------- *)
\* KEY1 .. KEY5 are the port bits PB1 .. PB5, and CMDn is n
KeyNums == 1..5

RECURSIVE SumPow2(_)
SumPow2(S) == IF S = {} THEN 0 ELSE LET k == CHOOSE x \in S : TRUE IN Pow2(k) + SumPow2(S \ {k})

\* BT_MASK: (1<<KEY1)|(1<<KEY2)|(1<<KEY3)|(1<<KEY4)|(1<<KEY5)
BT_MASK == SumPow2(KeyNums)

\* PINB: bit 0 is the DATA output, a key pulls its bit low, the pull-up holds it high
PinB(ks, p) == p + SumPow2(KeyNums \ ks)

\* ~PINB & (BT_MASK)
Buttons(pinb) == SumPow2({k \in 0..7 : ~TestBit(pinb, Pow2(k)) /\ TestBit(BT_MASK, Pow2(k))})

DispatchCmdLowest(b) ==
  IF \E n \in KeyNums : TestBit(b, Pow2(n))
    THEN CHOOSE n \in KeyNums : TestBit(b, Pow2(n)) /\ \A m \in 1..(n - 1) : ~TestBit(b, Pow2(m))
    ELSE 0

\* switch (buttons): case (1<<KEYn) gives CMDn, default gives no call (0 here)
DispatchCmd(b) ==
  IF \E n \in KeyNums : b = Pow2(n) THEN CHOOSE n \in KeyNums : b = Pow2(n) ELSE 0

WakePcAlways(pc) == "debounce"

\* a pin change interrupt: it ends sleep_mode(); PCINT0_vect is empty, so when the
\* device is awake the interrupted code goes on where it was
WakePc(pc) == IF pc = "sleep" THEN "debounce" ELSE pc

\* a key goes down
KeyPress ==
  \E k \in KeyNums :
    /\ k \notin keys
    /\ Cardinality(keys) < MaxHeld
    /\ keys' = keys \cup {k}
    /\ main_pc' = WakePc(main_pc)
    /\ woke' = IF main_pc \in {"sleep", "debounce"} THEN "press" ELSE woke
    /\ late' = IF main_pc = "send" THEN late \cup {k} ELSE late
    /\ UNCHANGED <<buttons, rf_start>>
    /\ UNCHANGED <<txvars, chvars, rxvars>>

\* a key goes up
KeyRelease ==
  \E k \in keys :
    /\ keys' = keys \ {k}
    /\ main_pc' = WakePc(main_pc)
    /\ woke' = IF main_pc = "sleep" THEN "release" ELSE woke
    /\ late' = late \ {k}
    /\ UNCHANGED <<buttons, rf_start>>
    /\ UNCHANGED <<txvars, chvars, rxvars>>

\* after _delay_ms(1): buttons = ~PINB & (BT_MASK); switch (buttons): sendCode(CMDn)
\* is entered (i = RF_PRE), or nothing is sent
Dispatch ==
  /\ main_pc = "debounce"
  /\ LET b == Buttons(PinB(keys, pin))
         c == DispatchCmd(b)
     IN /\ buttons' = b
        /\ IF c # 0
             THEN /\ main_pc' = "send"
                  /\ tx_cmd' = c
                  /\ tx_pc' = "pre"
                  /\ tx_i' = RF_PRE
                  /\ sent' = <<>>
                  /\ stream' = <<>>
                  /\ late' = late \ {c}
             ELSE /\ main_pc' = "loop"
                  /\ UNCHANGED <<tx_cmd, tx_pc, tx_i, sent, stream, late>>
  /\ UNCHANGED <<tx_j, tx_byte, tx_value, tx_n, pin, off_us>>
  /\ UNCHANGED <<pos, fault, src>>
  /\ UNCHANGED <<keys, woke, rf_start>>
  /\ UNCHANGED rxvars

\* sendCode has returned, or nothing was sent: while(1) runs sleep_mode() again
MainSleep ==
  /\ \/ main_pc = "loop"
     \/ main_pc = "send" /\ tx_pc = "done"
  /\ main_pc' = "sleep"
  /\ tx_pc' = "idle"
  /\ UNCHANGED <<tx_cmd, tx_i, tx_j, tx_byte, tx_value, tx_n, pin, off_us, sent>>
  /\ UNCHANGED <<keys, buttons, woke, late, rf_start>>
  /\ UNCHANGED <<chvars, rxvars>>

\* after the setup in main(): DATA low, interrupts on, no key held, at the top of while(1)
InitMain ==
  /\ main_pc = "loop" /\ keys = {} /\ buttons = 0 /\ woke = "none" /\ late = {}
  /\ tx_cmd = 0
  /\ TxInit("idle")
  /\ stream = <<>> /\ pos = 1 /\ fault = NoFault
  /\ src = [kind |-> "main"]
  /\ rf_start = RF_START
  /\ RxInit

SendSteps == RFOn \/ PreambleOff \/ StartOff \/ BitOff \/ StopPause

NextMain == KeyPress \/ KeyRelease \/ Dispatch \/ MainSleep \/ SendSteps

SpecMain == InitMain /\ [][NextMain]_vars

(* --------------- the receiver on a given sequence of pulses ------------- *)
MaxDur == 14 * RF_ERR

\* the burst lengths of the eight bits of byte b, most significant bit first
DataBursts(b) == [k \in 1..8 |-> IF BitAt(b, k) = 1 THEN bit1Burst ELSE bit0Burst]

\* n preamble bursts, the start bursts and the 24 data bursts of the bytes a, c, d
FrameBursts(n, a, c, d) ==
  [k \in 1..n |-> bit0Burst] \o [k \in 1..RF_START |-> startBurst]
    \o DataBursts(a) \o DataBursts(c) \o DataBursts(d)

Addrs == {ADDR, 170}
FlipsOf(b) == {(IF (b \div Pow2(k)) % 2 = 1 THEN b - Pow2(k) ELSE b + Pow2(k)) : k \in 0..7}
FullCmds == {0, 1, ADDR, 255}
TruncCmds == {1, 2, 165, 255}
Terminators == {0, RF_ERR - 1, 5 * RF_ERR + 1, startBurst, MaxDur}
NoStartDurs == {0, RF_ERR, bit0Burst, bit1Burst, 5 * RF_ERR - 1, 7 * RF_ERR + 1}

FrameIn(n, a, c, d) == [kind |-> "frame", n |-> n, a |-> a, c |-> c, d |-> d]

Inputs ==
  UNION { {FrameIn(n, a, c, 255 - c), FrameIn(n, a, c, c)} : n \in 0..MaxPre, a \in Addrs, c \in Byte }
  \cup UNION { {FrameIn(0, ADDR, c, d) : d \in FlipsOf(255 - c)} : c \in Byte }
  \cup {FrameIn(0, ADDR, c, d) : c \in FullCmds, d \in Byte}
  \cup {[kind |-> "trunc", c |-> c, k |-> k, t |-> t] :
          c \in TruncCmds, k \in 0..(NumBits - 1), t \in Terminators}
  \cup {[kind |-> "one", d |-> d] : d \in 0..MaxDur}
  \cup {[kind |-> "same", d |-> d] : d \in 0..MaxDur}
  \cup UNION { {[kind |-> "nostart", s |-> s] : s \in [1..n -> NoStartDurs]} : n \in 1..MaxNoStart }

StreamOf(in) ==
  CASE in.kind = "frame" -> FrameBursts(in.n, in.a, in.c, in.d)
    [] in.kind = "trunc" ->
         SubSeq(FrameBursts(0, ADDR, in.c, 255 - in.c), 1, RF_START + in.k) \o <<in.t>>
    [] in.kind = "one" -> [k \in 1..RF_START |-> startBurst] \o <<in.d>>
    [] in.kind = "same" -> [k \in 1..(RF_START + 1) |-> in.d]
    [] in.kind = "nostart" -> in.s

InitRx ==
  /\ src \in Inputs
  /\ rf_start = RF_START /\ NoMain
  /\ stream = StreamOf(src)
  /\ pos = 1 /\ fault = NoFault
  /\ tx_cmd = 0
  /\ TxInit("idle")
  /\ RxInit

SpecRx == InitRx /\ [][RxNext]_vars

(* ------------------------- the telegram's layout ------------------------ *)
RECURSIVE Repeat(_, _)
Repeat(s, n) == IF n = 0 THEN <<>> ELSE s \o Repeat(s, n - 1)

ByteSyms(b) == [k \in 1..8 |-> IF BitAt(b, k) = 1 THEN "1" ELSE "0"]

RepetitionSyms(cmd) ==
  Repeat(<<"S">>, RF_START) \o ByteSyms(ADDR) \o ByteSyms(cmd) \o ByteSyms(255 - cmd) \o <<"P">>

TelegramSyms(cmd) == Repeat(<<"0">>, RF_PRE) \o Repeat(RepetitionSyms(cmd), RF_REP)

IsPrefix(s, t) == Len(s) <= Len(t) /\ s = SubSeq(t, 1, Len(s))

Last(s) == s[Len(s)]

\* the printout of a valid telegram with command cmd
ValidFrame(cmd) == <<"Telegram received:", ADDR, cmd, 255 - cmd, "Valid Code Reading">>

\* bursts of the telegram read so far by the receiver
Consumed == pos - 1

\* sendCode has returned and the receiver has read all of it and printed
Quiet == tx_pc = "done" /\ pos > Len(stream) /\ rx_pc = "wait"

(* -------------------------------- claims -------------------------------- *)

\* C1 (round trip): the receiver, hearing sendCode(cmd) for any cmd in 0..255, prints
\* nothing but the valid telegram (0x55, cmd, 255-cmd); whenever it is back waiting for
\* start bits it has printed one such telegram for each repetition of RF_START start
\* bursts and 24 data bursts it has read, RF_REP in all once sendCode has returned.
C1_RoundTrip ==
  /\ \A k \in 1..Len(reports) : reports[k] = ValidFrame(tx_cmd)
  /\ (rx_pc = "wait" /\ Consumed >= RF_PRE =>
        Len(reports) = (Consumed - RF_PRE) \div (RF_START + NumBits))
  /\ (Quiet => Len(reports) = RF_REP)

C1_Witness ==
  /\ Quiet /\ tx_cmd = 165
  /\ reports = <<ValidFrame(165), ValidFrame(165), ValidFrame(165)>>

\* C2 (stop gap, as claimed): after stopPause of every repetition the output has been
\* off for at least 8 * RF_ERR microseconds of delay since the last data bit's burst
\* (the last bit's space delay plus the stopPause delay).
C2_StopGap ==
  (pin = 0 /\ sent # <<>> /\ Last(sent) = "P") => off_us >= 8 * RF_ERR

\* C4 (telegram layout): what sendCode(cmd) has emitted is always a prefix of, and on
\* return equal to, RF_PRE zero bits followed by RF_REP times [RF_START start symbols,
\* 0x55, cmd, 255-cmd each most significant bit first, stop pause]; 116 bursts in all.
C4_Layout ==
  /\ IsPrefix(sent, TelegramSyms(tx_cmd))
  /\ (tx_pc = "done" =>
        /\ sent = TelegramSyms(tx_cmd)
        /\ Len(stream) = 116
        /\ Len(sent) = 116 + RF_REP)

C4_Witness ==
  /\ tx_pc = "done" /\ tx_cmd = 3
  /\ SubSeq(sent, RF_PRE + 1, RF_PRE + 29) =
       <<"S", "S", "S", "S", "0", "1", "0", "1", "0", "1", "0", "1",
         "0", "0", "0", "0", "0", "0", "1", "1",
         "1", "1", "1", "1", "1", "1", "0", "0", "P">>

\* the printout of a complete reading of the bytes a, c, d
FrameReport(a, c, d) ==
  <<"Telegram received:", a, c, d,
    IF d = 255 - c THEN "Valid Code Reading" ELSE "Invalid Code Reading">>

Incomplete == <<"Incomplete Reading !">>

IsFrame(r) == r[1] = "Telegram received:"

\* the given pulses have all been read and the pass that read the last one has printed
RxQuiet == pos > Len(stream) /\ rx_pc = "wait"

AllOutOfStartBand(s) == \A k \in 1..Len(s) : s[k] < 5 * RF_ERR \/ s[k] > 7 * RF_ERR

\* C3 (inverse check): a reading of 24 accepted bits is printed as a telegram with
\* address = bits 23..16, command = bits 15..8, inverse = bits 7..0, marked valid if and
\* only if inverse = 255 - command and invalid otherwise, never incomplete, whatever the
\* address; every printed telegram is marked valid exactly when its printed inverse is
\* 255 minus its printed command.
C3_InverseCheck ==
  /\ \A k \in 1..Len(reports) : IsFrame(reports[k]) =>
        (reports[k][5] = "Valid Code Reading" <=> reports[k][4] = 255 - reports[k][3])
  /\ (src.kind = "frame" /\ rx_pc = "report" /\ rx_i = 0 =>
        data = SentinelMask + src.a * 65536 + src.c * 256 + src.d)
  /\ (src.kind = "frame" /\ reports # <<>> =>
        reports = <<FrameReport(src.a, src.c, src.d)>>)

C3_Witness ==
  /\ src.kind = "frame" /\ src.a = 170 /\ src.c = 85 /\ src.d = 85
  /\ reports = << <<"Telegram received:", 170, 85, 85, "Invalid Code Reading">> >>

\* the valid telegrams of the command sent among the printouts
ValidReports == {k \in 1..Len(reports) : reports[k] = ValidFrame(tx_cmd)}

\* C5 (repeat independence, as claimed): once the telegram is sent and read, every
\* repetition the channel did not corrupt has been printed as the valid frame
\* (0x55, cmd, 255-cmd): RF_REP of them without a fault, and RF_REP - 1 at least when
\* one repetition lost, gained or had replaced a data pulse.
C5_RepeatIndependence ==
  Quiet => Cardinality(ValidReports) >= (IF fault = NoFault THEN RF_REP ELSE RF_REP - 1)

C7_Truncation ==
  /\ (rx_pc = "report" => (IsFrame(ReportOf(data)) <=> rx_i = 0))
  /\ (rx_pc = "report" /\ rx_i # 0 => ReportOf(data) = Incomplete)
  /\ (src.kind = "trunc" /\ rx_pc = "report" => rx_i = NumBits - src.k)
  /\ (src.kind = "trunc" /\ RxQuiet => reports = <<Incomplete>>)
  /\ (src.kind = "frame" /\ RxQuiet => Len(reports) = 1 /\ IsFrame(reports[1]))

C7_Witness ==
  /\ src.kind = "trunc" /\ src.k = 23 /\ src.t = 0 /\ src.c = 165
  /\ RxQuiet /\ reports = <<Incomplete>>

\* C8 (bands do not overlap, as claimed): no duration from 0 to 14*RF_ERR is accepted
\* both as a start pulse and as a data bit: on RF_START + 1 pulses of one and the same
\* duration the receiver never appends a bit.
C8_BandsDisjoint ==
  src.kind = "same" => data \in {0, 1}

\* C9 (bit classification): the first pulse d read after the start bits ends the
\* reading with no bit appended if d < RF_ERR or d > 5*RF_ERR, appends a 1 if
\* 3*RF_ERR < d <= 5*RF_ERR and appends a 0 if RF_ERR <= d <= 3*RF_ERR.
C9_BitClasses ==
  (src.kind = "one" /\ pos > RF_START + 1 /\ reports = <<>>) =>
    IF src.d < RF_ERR \/ src.d > 5 * RF_ERR
      THEN rx_pc = "report" /\ rx_i = NumBits /\ data = 1
    ELSE IF src.d > 3 * RF_ERR
      THEN rx_i = NumBits - 1 /\ data = 3
      ELSE rx_i = NumBits - 1 /\ data = 2

C9_Witness ==
  /\ src.kind = "one" /\ src.d = 3 * RF_ERR + 1
  /\ rx_pc = "read" /\ duration = 3 * RF_ERR + 1 /\ data = 3

\* C10 (preamble tolerance): n zero-bit pulses before the start pulses are read in the
\* wait-for-start phase, the bit reading begins exactly after the last start pulse, and
\* the printout is the frame of the 24 data pulses, the same for every n, n = 0 too.
C10_PreambleTolerance ==
  src.kind = "frame" =>
    /\ (rx_pc = "wait" /\ reports = <<>> => pos <= src.n + RF_START)
    /\ (rx_pc = "read" => pos > src.n + RF_START /\ rx_i = NumBits - (pos - 1 - src.n - RF_START))
    /\ (RxQuiet => reports = <<FrameReport(src.a, src.c, src.d)>>)

C10_Witness ==
  /\ src.kind = "frame" /\ src.n = MaxPre /\ src.c = 4 /\ src.d = 251
  /\ RxQuiet /\ reports = <<ValidFrame(4)>> /\ src.a = ADDR

\* What holds at every moment main() is inside sendCode: the command is the one the
\* dispatch chose, the emitted symbols are a prefix of its telegram, the next step of
\* sendCode can be taken, and at the return the telegram is whole.
SendingState ==
  main_pc = "send" =>
    /\ tx_pc # "idle"
    /\ buttons = Pow2(tx_cmd)
    /\ IsPrefix(sent, TelegramSyms(tx_cmd))
    /\ (tx_pc = "done" => sent = TelegramSyms(tx_cmd))
    /\ (tx_pc # "done" => ENABLED SendSteps)

\* What every step does while main() is inside sendCode.
SendingStep ==
  /\ (main_pc = "send" /\ tx_pc # "done" =>
        main_pc' = "send" /\ tx_cmd' = tx_cmd /\ buttons' = buttons /\ IsPrefix(sent, sent'))
  /\ (main_pc = "send" /\ tx_pc = "done" => sent' = sent /\ main_pc' \in {"send", "sleep"})

\* C11 (run to completion): once sendCode(cmd) has started, no step (key presses and
\* releases and their interrupts included) takes main() out of sendCode, changes the
\* command or shortens what was emitted; until sendCode returns its next step can
\* always be taken, and it returns only with the whole telegram of cmd emitted.
C11_RunToCompletion ==
  /\ []SendingState
  /\ [][SendingStep]_vars

C11_Witness ==
  /\ main_pc = "send" /\ tx_pc = "done" /\ tx_cmd = 1
  /\ keys = {2} /\ late = {2}
  /\ sent = TelegramSyms(1)

\* C18 (carrier off outside bursts): the DATA output is on only inside sendCode
\* during the burst delay of a pulse macro; during every space and stopPause, when
\* sendCode has returned, during debounce and in sleep it is off.
C18_CarrierOff ==
  /\ (pin = 1 => main_pc = "send" /\ tx_pc \in {"pre", "start", "byte"} /\ off_us = 0)
  /\ (off_us > 0 => pin = 0)
  /\ (tx_pc \in {"idle", "stop", "done"} => pin = 0)
  /\ (main_pc \in {"sleep", "debounce", "loop"} => pin = 0)

C18_Witness ==
  /\ main_pc = "sleep" /\ keys = {3}
  /\ sent = TelegramSyms(3)
  /\ pin = 0 /\ off_us = stopPauseDelay + bit0Space

\* What a dispatch does: with exactly one key down it enters sendCode with that key's
\* number as command and nothing emitted yet, otherwise it sends nothing.
DispatchStep ==
  main_pc = "debounce" /\ main_pc' # "debounce" =>
    IF \E n \in KeyNums : keys = {n}
      THEN main_pc' = "send" /\ keys = {tx_cmd'} /\ buttons' = Pow2(tx_cmd') /\ sent' = <<>>
      ELSE main_pc' = "loop" /\ tx_pc' = "idle" /\ sent' = sent

\* What was emitted since the last sendCode call is (a prefix of) the telegram of a
\* command 1..5, whole once main() is outside sendCode; the buttons value read from
\* PINB is the same whatever the level of the DATA bit.
EmittedState ==
  /\ (sent # <<>> => tx_cmd \in 1..5 /\ IsPrefix(sent, TelegramSyms(tx_cmd)))
  /\ (main_pc # "send" => sent = <<>> \/ sent = TelegramSyms(tx_cmd))
  /\ \A p \in {0, 1} : Buttons(PinB(keys, p)) = SumPow2(keys)

\* C16 (key dispatch): at each wake-up, after the debounce, exactly one key KEYn down
\* sends one telegram with address 0x55, command n and inverse 255 - n; no key or more
\* than one key sends nothing; every telegram emitted is such a telegram, and the DATA
\* pin never influences the dispatch.
C16_KeyDispatch ==
  /\ []EmittedState
  /\ [][DispatchStep]_vars

C16_Witness ==
  /\ main_pc = "loop" /\ Cardinality(keys) = 2 /\ 1 \in keys
  /\ buttons = SumPow2(keys)
  /\ sent = TelegramSyms(5)

\* C12 (one transmission per press, strictly sequential): every sendCode call comes
\* from a wake-up in which a key went from released to pressed, and sendCode is only
\* entered when no earlier call is still running.
C12_OnePerPress ==
  /\ (main_pc = "send" => woke = "press")
  /\ (main_pc = "debounce" => tx_pc = "idle")

\* sendCode is only entered when no earlier call is still running
SequentialCalls == main_pc \in {"sleep", "debounce", "loop"} => tx_pc = "idle" /\ pin = 0

\* a step main() takes by itself, with no key event
FirmwareStep == Dispatch \/ MainSleep \/ SendSteps

\* C17 (press leads to telegram): a single key held at the dispatch is sent as one whole
\* telegram and the device then sleeps; and while a single key that was pressed during a
\* transmission is held and not yet sent, the firmware is not blocked in sleep_mode():
\* it still has a step of its own to take towards sending it.
C17_PressLeadsToTelegram ==
  /\ (main_pc = "send" /\ tx_pc = "done" => sent = TelegramSyms(tx_cmd) /\ ENABLED MainSleep)
  /\ \A k \in KeyNums : keys = {k} /\ k \in late => ENABLED FirmwareStep

(* ------------- a telegram begins with the decoder in any state ---------- *)
\* the states loop() can be in between two pulseIn() calls: waiting for the start with
\* 1 .. RF_START in-band pulses still to come, or reading bits with k = 0 .. 23 bits
\* accepted (all zeros or all ones) under the leading 1 of data
DecoderStates ==
  {[pc |-> "wait", counter |-> c, data |-> 0, i |-> 0] : c \in 1..RF_START}
  \cup {[pc |-> "read", counter |-> 0, data |-> Pow2(k), i |-> NumBits - k] : k \in 0..(NumBits - 1)}
  \cup {[pc |-> "read", counter |-> 0, data |-> Pow2(k + 1) - 1, i |-> NumBits - k] :
          k \in 0..(NumBits - 1)}

InitRecover ==
  /\ tx_cmd \in KeyCmds
  /\ rf_start = RF_START /\ NoMain
  /\ TxInit("idle")
  /\ stream = <<>> /\ pos = 1 /\ fault = NoFault
  /\ duration = 0 /\ reports = <<>>
  /\ \E st \in DecoderStates :
       /\ rx_pc = st.pc /\ counter = st.counter /\ data = st.data /\ rx_i = st.i
       /\ src = [kind |-> "air", st |-> st]

SpecRecover == InitRecover /\ [][Next]_vars

\* C13 (recoverability): whatever state the decoder is in when the telegram of
\* sendCode(cmd) begins, the decoder is never blocked, and when the telegram has been
\* read to its end the valid frame (0x55, cmd, 255 - cmd) has been reported, once for
\* each of the RF_REP repetitions.
C13_Recoverable ==
  /\ (~Quiet => ENABLED Next)
  /\ (Quiet => /\ Len(reports) >= RF_REP
               /\ \A k \in 0..(RF_REP - 1) : reports[Len(reports) - k] = ValidFrame(tx_cmd))

C13_Witness ==
  /\ Quiet /\ tx_cmd = 5
  /\ src.st.pc = "read" /\ src.st.i = 7 /\ src.st.data = Pow2(18) - 1
  /\ reports = <<ReportOf((Pow2(18) - 1) * Pow2(7))>> \o Repeat(<<ValidFrame(5)>>, RF_REP)

(* ------------- a pass that starts with leftovers of earlier passes ------ *)
\* what an earlier pass can have left: the last duration read, the counter, and the bit
\* accumulator with its loop index (nothing read, a whole telegram, a broken reading)
LeftDurs == {0, startBurst, MaxDur}
LeftCounters == 0..CounterReload
LeftData ==
  {[data |-> 0, i |-> 0], [data |-> 1, i |-> NumBits],
   [data |-> SentinelMask + ADDR * 65536 + 2 * 256 + 253, i |-> 0],
   [data |-> Pow2(5) + 3, i |-> NumBits - 5]}

LeftInputs ==
  {FrameIn(n, ADDR, c, d) : n \in 0..1, c \in {1, 165}, d \in {254, 90, 1, 165}}
  \cup {[kind |-> "trunc", c |-> 1, k |-> k, t |-> t] : k \in {0, 5, NumBits - 1}, t \in {0, startBurst}}

InitLeft ==
  /\ \E in \in LeftInputs, ld \in LeftData :
       /\ stream = StreamOf(in)
       /\ duration \in LeftDurs /\ counter \in LeftCounters
       /\ data = ld.data /\ rx_i = ld.i
       /\ src = [kind |-> "left", in |-> in, duration |-> duration, counter |-> counter, data |-> data]
  /\ rx_pc = "entry" /\ reports = <<>>
  /\ rf_start = RF_START /\ NoMain
  /\ pos = 1 /\ fault = NoFault
  /\ tx_cmd = 0
  /\ TxInit("idle")

SpecLeft == InitLeft /\ [][LoopEnter \/ RxNext]_vars

\* C14 (no state across attempts): the outcome of a pass is fixed by the pulses it
\* reads; whatever the global duration, the start counter and the bit accumulator held
\* when the pass began, start bits and 24 data pulses print the telegram of those 24
\* bits with its validity, and start bits and a broken reading print "Incomplete
\* Reading !", after the same number of pulse reads.
C14_NoCarryOver ==
  /\ (rx_pc = "report" => pos = Len(stream) + 1)
  /\ (rx_pc = "read" =>
        pos = (IF src.in.kind = "frame" THEN src.in.n ELSE 0) + RF_START + (NumBits - rx_i) + 1)
  /\ (RxQuiet /\ src.in.kind = "frame" =>
        reports = <<FrameReport(src.in.a, src.in.c, src.in.d)>>)
  /\ (RxQuiet /\ src.in.kind = "trunc" => reports = <<Incomplete>>)

C14_Witness ==
  /\ RxQuiet /\ src.in = FrameIn(1, ADDR, 165, 90)
  /\ src.counter = 0 /\ src.duration = startBurst /\ src.data = Pow2(5) + 3
  /\ reports = <<FrameReport(ADDR, 165, 90)>>

(* ------------- the start bits with RF_START configured 1 .. MaxStart ---- *)
\* a start burst, a data burst and a timeout, in every order
StartDurs == {startBurst, bit0Burst, 0}

StartInputs ==
  UNION { {[kind |-> "start", s |-> s] : s \in [1..n -> StartDurs]} : n \in 1..MaxStartLen }

\* the receiver built with #define RF_START n
InitStart ==
  /\ rf_start \in 1..MaxStart
  /\ src \in StartInputs
  /\ stream = src.s
  /\ NoMain
  /\ pos = 1 /\ fault = NoFault
  /\ tx_cmd = 0
  /\ TxInit("idle")
  /\ RxInit

SpecStart == InitStart /\ [][RxNext]_vars

\* the q-th pulse read ends a run of rf_start reads that were all within the start band
StartWindowAt(q) ==
  /\ q >= rf_start
  /\ \A k \in (q - rf_start + 1)..q : 5 * RF_ERR <= stream[k] /\ stream[k] <= 7 * RF_ERR

\* C15 (start synchronisation, as claimed): for RF_START configured 1 .. MaxStart, the
\* first pass leaves the wait for the start bits exactly at the first pulse read whose
\* last RF_START reads were all within [5*RF_ERR, 7*RF_ERR]: while it waits no such
\* read has occurred, and when it begins to read bits the last read is the first such.
C15_StartSync ==
  reports = <<>> =>
    /\ (rx_pc = "wait" => \A q \in 1..(pos - 1) : ~StartWindowAt(q))
    /\ (rx_pc = "read" /\ rx_i = NumBits =>
          /\ StartWindowAt(pos - 1)
          /\ \A q \in 1..(pos - 2) : ~StartWindowAt(q))

(* ------------- a broken reading followed by start bits and a frame ------ *)
\* start bits, k < 24 data bursts of (0x55, c, 255 - c), a pulse t that ends the reading,
\* then m start bursts and the 24 data bursts of the frame
ResyncInputs ==
  {[kind |-> "resync", c |-> c, k |-> k, t |-> t, m |-> m] :
     c \in {1, 165}, k \in 0..(NumBits - 1), t \in Terminators, m \in {RF_START - 1, RF_START}}

ResyncStream(in) ==
  SubSeq(FrameBursts(0, ADDR, in.c, 255 - in.c), 1, RF_START + in.k) \o <<in.t>>
    \o [j \in 1..in.m |-> startBurst]
    \o DataBursts(ADDR) \o DataBursts(in.c) \o DataBursts(255 - in.c)

InitResync ==
  /\ src \in ResyncInputs
  /\ stream = ResyncStream(src)
  /\ rf_start = RF_START /\ NoMain
  /\ pos = 1 /\ fault = NoFault
  /\ tx_cmd = 0
  /\ TxInit("idle")
  /\ RxInit

SpecResync == InitResync /\ [][RxNext]_vars

\* C19 (bounded bit reading, consumed abort pulse): after the start bits the pass reads
\* at most 24 pulses, each read returns, and the pass ends; a reading broken after k < 24
\* accepted bits has read exactly k + 1 pulses since the start bits; the pulse that
\* broke it is not looked at again: the next pass needs RF_START start pulses after it,
\* also when the breaking pulse itself lies within [5*RF_ERR, 7*RF_ERR].
C19_BoundedRead ==
  /\ (rx_pc = "read" => rx_i \in 1..NumBits /\ ENABLED ReadBit)
  /\ (reports = <<>> /\ rx_pc = "read" => pos - 1 - RF_START = NumBits - rx_i)
  /\ (reports = <<>> /\ rx_pc = "report" =>
        rx_i = NumBits - src.k /\ pos - 1 - RF_START = src.k + 1)
  /\ (Len(reports) = 1 /\ rx_pc \in {"read", "report"} =>
        /\ src.m = RF_START
        /\ pos - 1 = (RF_START + src.k + 1) + RF_START + (NumBits - rx_i))
  /\ (RxQuiet =>
        reports = IF src.m = RF_START
                    THEN <<Incomplete, FrameReport(ADDR, src.c, 255 - src.c)>>
                    ELSE <<Incomplete>>)

C19_Witness ==
  /\ RxQuiet /\ src.t = startBurst /\ src.m = RF_START - 1 /\ src.k = NumBits - 1
  /\ reports = <<Incomplete>>

====
